---- MODULE Spec2Model ----
(***************************************************************************)
(* The "guess the number with at most one lie" game of src/main.rs:        *)
(* Range, Dir, GameState, the value heuristics, adversarial_response,      *)
(* result and the play_game loop.                                          *)
(*                                                                         *)
(* The engine is driven in two ways, chosen in Init:                       *)
(*   pc = "api"   the functions are called directly, with any arguments    *)
(*                (store_guess with any value and answer,                  *)
(*                adversarial_response with any value function);           *)
(*   pc = "loop"  play_game(upper_limit, opponent) runs its loop.          *)
(***************************************************************************)
EXTENDS Integers, Sequences, FiniteSets, TLC

\* ---------------------------------------------------------------- bounds
\* largest upper_limit a game is created with
MaxUpper == 3
\* largest number of recorded turns
MaxTurns == 3

\* ------------------------------------------------------------------- Dir
High == "High"
Low == "Low"
Dir == {High, Low}

\* opposite that flips nothing
opposite_same(self) == self

opposite(self) == IF self = High THEN Low ELSE High

\* ----------------------------------------------------------------- Range
\* std::cmp::{min, max}
max(a, b) == IF a >= b THEN a ELSE b
min(a, b) == IF a <= b THEN a ELSE b

\* u64::saturating_sub
saturating_sub(a, b) == IF a >= b THEN a - b ELSE 0

RangeNew(lower, higher) == [lower |-> lower, higher |-> higher]

\* clamp_lower without the max: the clamp replaces the lower edge
clamp_lower_noMax(self, clamp) ==
    [lower |-> clamp, higher |-> self.higher]

\* clamp_lower taking High for "strictly greater than the guess"
clamp_lower_strict(self, clamp) ==
    [lower |-> max(self.lower, clamp + 1), higher |-> self.higher]

clamp_lower(self, clamp) ==
    [lower |-> max(self.lower, clamp), higher |-> self.higher]

\* clamp_higher without the min: the clamp replaces the higher edge
clamp_higher_noMin(self, clamp) ==
    [lower |-> self.lower, higher |-> clamp]

clamp_higher(self, clamp) ==
    [lower |-> self.lower, higher |-> min(self.higher, clamp)]

\* len as the distance of the edges: an inverted range counts as well
len_abs(self) ==
    IF self.higher >= self.lower
    THEN self.higher - self.lower
    ELSE self.lower - self.higher

len(self) == saturating_sub(self.higher, self.lower)

\* ------------------------------------------------------------- GameState
\* history holds (value, response) pairs; position i of the source's Vec is
\* position i + 1 of the sequence.
GameStateNew(upper_limit) == [history |-> << >>, upper_limit |-> upper_limit]

\* store_guess with the bound test off by one (> for >=)
store_guess_offByOne(self, value, response) ==
    IF value > self.upper_limit
    THEN [ok |-> FALSE, game |-> self]
    ELSE [ok |-> TRUE,
          game |-> [self EXCEPT !.history = Append(@, <<value, response>>)]]

\* Result<(), &str> together with the receiver after the call
store_guess(self, value, response) ==
    IF value >= self.upper_limit
    THEN [ok |-> FALSE, game |-> self]
    ELSE [ok |-> TRUE,
          game |-> [self EXCEPT !.history = Append(@, <<value, response>>)]]

\* Option<usize>
None == <<"None">>
Some(index) == <<"Some", index>>

\* the lies vector without the push of None
Lies_noNone(self) ==
    [k \in 1..Len(self.history) |-> Some(k - 1)]

\* the lies vector of possibilities(): Some(0), ..., Some(n - 1), None
Lies(self) ==
    [k \in 1..(Len(self.history) + 1) |->
        IF k <= Len(self.history) THEN Some(k - 1) ELSE None]

\* the initial range with an inclusive upper edge
InitialRange_inclusive(self) == RangeNew(0, self.upper_limit + 1)

\* let mut range = Range::new(0, self.upper_limit)
InitialRange(self) == RangeNew(0, self.upper_limit)

\* the body of the for loop of possibilities(): the range after replaying
\* the first n entries of the history under the hypothesis lie
RECURSIVE Replay(_, _, _)
Replay(self, lie, n) ==
    IF n = 0
    THEN InitialRange(self)
    ELSE LET range == Replay(self, lie, n - 1)
             guess == self.history[n][1]
             response == self.history[n][2]
             truth == IF lie = Some(n - 1) THEN opposite(response) ELSE response
         IN  IF truth = High
             THEN clamp_lower(range, guess)
             ELSE clamp_higher(range, guess)

possibilities(self) ==
    LET lies == Lies(self)
    IN  [k \in 1..Len(lies) |->
            [range |-> Replay(self, lies[k], Len(self.history)),
             lie |-> lies[k]]]

\* ------------------------------------------------------------ heuristics
RECURSIVE SumLen(_, _)
SumLen(poss, n) ==
    IF n = 0 THEN 0 ELSE SumLen(poss, n - 1) + len(poss[n].range)

simple_value(game) ==
    LET poss == possibilities(game) IN SumLen(poss, Len(poss))

RECURSIVE Pow(_, _)
Pow(b, e) == IF e = 0 THEN 1 ELSE b * Pow(b, e - 1)

\* floor(log2(n)) for n >= 1
RECURSIVE FloorLog2(_)
FloorLog2(n) == IF n <= 1 THEN 0 ELSE 1 + FloorLog2(n \div 2)

\* the sums of better_value's terms: the hypotheses with a lie weigh their
\* length, the hypothesis without a lie weighs length * multiplier
RECURSIVE SumLieLen(_, _)
SumLieLen(poss, n) ==
    IF n = 0 THEN 0
    ELSE SumLieLen(poss, n - 1)
         + (IF poss[n].lie = None THEN 0 ELSE len(poss[n].range))

RECURSIVE SumNoLieLen(_, _)
SumNoLieLen(poss, n) ==
    IF n = 0 THEN 0
    ELSE SumNoLieLen(poss, n - 1)
         + (IF poss[n].lie = None THEN len(poss[n].range) ELSE 0)

\* the cast with multiplier = log2(simple), the "- 1" forgotten
F64AsU64_noMinusOne(simple, nolie, lie) ==
    IF simple = 0
    THEN 0
    ELSE max(0, lie + FloorLog2(Pow(simple, nolie)))

\* the cast of a build in which NaN converts to a large number instead of 0
F64AsU64_nanLarge(simple, nolie, lie) ==
    IF simple = 0
    THEN 1000000
    ELSE max(0, lie + FloorLog2(Pow(simple, nolie)) - nolie)

\* `f as u64` of the f64 sum: NaN becomes 0 and a negative sum saturates
\* at 0; otherwise the sum is truncated.
\*   simple = 0: multiplier = log2(0) - 1 = -inf, every length is 0 and the
\*               no-lie term is 0 * -inf = NaN, so the sum is NaN.
\*   simple >= 1: the sum is lie + nolie * (log2(simple) - 1), and
\*               floor(nolie * log2(simple)) = floor(log2(simple ^ nolie)).
F64AsU64(simple, nolie, lie) ==
    IF simple = 0
    THEN 0
    ELSE max(0, lie + FloorLog2(Pow(simple, nolie)) - nolie)

better_value(game) ==
    LET poss == possibilities(game)
        simple == simple_value(game)
    IN  F64AsU64(simple,
                 SumNoLieLen(poss, Len(poss)),
                 SumLieLen(poss, Len(poss)))

\* two further value functions, to exercise adversarial_response's
\* `value` parameter: one that ties on every query and one that always
\* rates the High answer higher
turns_value(game) == Len(game.history)

last_high_value(game) ==
    IF Len(game.history) > 0 /\ game.history[Len(game.history)][2] = High
    THEN 1 ELSE 0

\* the value functions a caller passes, by name
ValueFns == {"simple_value", "better_value", "turns_value", "last_high_value"}

\* value(&game) for the `value: &Fn(&GameState) -> u64` named fn
ApplyValue(fn, game) ==
    CASE fn = "simple_value" -> simple_value(game)
      [] fn = "better_value" -> better_value(game)
      [] fn = "turns_value" -> turns_value(game)
      [] fn = "last_high_value" -> last_high_value(game)

\* -------------------------------------------------- adversarial_response
\* adversarial_response with >= for >: ties answer High
adversarial_response_tieHigh(value, game, guess) ==
    LET game_high == store_guess(game, guess, High).game
        game_low == store_guess(game, guess, Low).game
        high_remaining == ApplyValue(value, game_high)
        low_remaining == ApplyValue(value, game_low)
    IN  IF high_remaining >= low_remaining THEN High ELSE Low

\* defined when both simulated store_guess calls succeed (guess in range);
\* the unwrap()s abort otherwise, see AdversarialAborts
adversarial_response(value, game, guess) ==
    LET game_high == store_guess(game, guess, High).game
        game_low == store_guess(game, guess, Low).game
        high_remaining == ApplyValue(value, game_high)
        low_remaining == ApplyValue(value, game_low)
    IN  IF high_remaining > low_remaining THEN High ELSE Low

\* the states adversarial_response applies its value function to
ValuedStates(game, guess) ==
    {store_guess(game, guess, High).game, store_guess(game, guess, Low).game}

AdversarialAborts(game, guess) ==
    \/ ~store_guess(game, guess, High).ok
    \/ ~store_guess(game, guess, Low).ok

\* ---------------------------------------------------------------- result
Ongoing == <<"Ongoing">>
Finished(v) == <<"Finished", v>>
Impossible == <<"Impossible">>

\* result without the test that the surviving singletons agree
result_noAll(poss) ==
    LET ranges == SelectSeq([k \in 1..Len(poss) |-> poss[k].range],
                            LAMBDA range : len(range) > 0)
    IN  IF \E k \in 1..Len(ranges) : len(ranges[k]) > 1
        THEN Ongoing
        ELSE IF Len(ranges) > 0
             THEN Finished(ranges[1].lower)
             ELSE Impossible

\* result taking a range of length 1 for undecided (>= 1 for > 1)
result_ongoingAtOne(poss) ==
    LET ranges == SelectSeq([k \in 1..Len(poss) |-> poss[k].range],
                            LAMBDA range : len(range) > 0)
    IN  IF \E k \in 1..Len(ranges) : len(ranges[k]) >= 1
        THEN Ongoing
        ELSE IF Len(ranges) > 0
             THEN IF \A k \in 1..Len(ranges) : ranges[k] = ranges[1]
                  THEN Finished(ranges[1].lower)
                  ELSE Ongoing
             ELSE Impossible

result(poss) ==
    LET ranges == SelectSeq([k \in 1..Len(poss) |-> poss[k].range],
                            LAMBDA range : len(range) > 0)
    IN  IF \E k \in 1..Len(ranges) : len(ranges[k]) > 1
        THEN Ongoing
        ELSE IF Len(ranges) > 0
             THEN IF \A k \in 1..Len(ranges) : ranges[k] = ranges[1]
                  THEN Finished(ranges[1].lower)
                  ELSE Ongoing
             ELSE Impossible

\* ----------------------------------------------------------------- state
VARIABLES
    game,       \* the GameState: [history, upper_limit]
    pc,         \* "api": direct calls; "loop", "turn", "done": play_game;
                \* "abort": an unwrap()/expect() panicked
    opponent,   \* play_game's opponent: adversarial_response with the named
                \* value function, or "any" for an arbitrary opponent
    input,      \* the last query: << >> none yet, <<"Err">> a line that does
                \* not parse, <<"Ok", n>> the number n
    value_fn,   \* the value function of the last adversarial_response call
    response,   \* the Dir last returned by the opponent / given to store_guess
    ret,        \* what the last store_guess on game returned: "Ok" / "Err"
    prompt,     \* the turn index printed by the last prompt, -1 before it
    report      \* the final report: << >> or <<guesses, answer, poss_lies>>

vars == <<game, pc, opponent, input, value_fn, response, ret, prompt, report>>

Opponents == {"better_value", "simple_value", "any"}

\* the numbers a caller or the user can give as a query
Queries == 0..MaxUpper

Init ==
    /\ \E upper_limit \in 0..MaxUpper : game = GameStateNew(upper_limit)
    /\ \/ pc = "api" /\ opponent = "any"
       \/ pc = "loop" /\ opponent \in Opponents
    /\ input = << >>
    /\ value_fn = "none"
    /\ response = "none"
    /\ ret = "none"
    /\ prompt = -1
    /\ report = << >>

\* ----------------------------------------------------------- direct calls
\* game.store_guess(value, answer), the Result kept in ret
ApiStoreGuess ==
    /\ pc = "api"
    /\ Len(game.history) < MaxTurns
    /\ \E value \in Queries, answer \in Dir :
         LET r == store_guess(game, value, answer)
         IN  /\ game' = r.game
             /\ ret' = IF r.ok THEN "Ok" ELSE "Err"
             /\ input' = <<"Ok", value>>
             /\ response' = answer
    /\ value_fn' = "none"
    /\ UNCHANGED <<pc, opponent, prompt, report>>

\* adversarial_response simulating on the caller's state instead of on
\* clones: the simulated Low answer stays recorded
ApiAdversarialResponse_noClone ==
    /\ pc = "api"
    /\ Len(game.history) < MaxTurns
    /\ \E fn \in ValueFns, guess \in Queries :
         /\ input' = <<"Ok", guess>>
         /\ value_fn' = fn
         /\ game' = store_guess(game, guess, Low).game
         /\ IF AdversarialAborts(game, guess)
            THEN /\ pc' = "abort"
                 /\ response' = "none"
            ELSE /\ pc' = pc
                 /\ response' =
                      adversarial_response(fn, game, guess)
    /\ ret' = "none"
    /\ UNCHANGED <<opponent, prompt, report>>

\* adversarial_response(value, &game, guess), the Dir kept in response; a
\* guess out of range panics in the first unwrap(). The simulated states
\* have one turn more, so MaxTurns bounds the call as it bounds store_guess.
ApiAdversarialResponse ==
    /\ pc = "api"
    /\ Len(game.history) < MaxTurns
    /\ \E fn \in ValueFns, guess \in Queries :
         /\ input' = <<"Ok", guess>>
         /\ value_fn' = fn
         /\ IF AdversarialAborts(game, guess)
            THEN /\ pc' = "abort"
                 /\ response' = "none"
            ELSE /\ pc' = pc
                 /\ response' =
                      adversarial_response(fn, game, guess)
    /\ ret' = "none"
    /\ UNCHANGED <<game, opponent, prompt, report>>

\* -------------------------------------------------------------- play_game
\* the opponent's answers to a guess: main's closure calls
\* adversarial_response with better_value
OpponentAborts(guess) ==
    opponent # "any" /\ AdversarialAborts(game, guess)

OpponentResponses(guess) ==
    IF opponent = "any"
    THEN Dir
    ELSE {adversarial_response(opponent, game, guess)}

\* poss_lies of the final report
PossLies(self) ==
    LET poss == possibilities(self)
        kept == SelectSeq(poss, LAMBDA p : len(p.range) > 0)
    IN  [k \in 1..Len(kept) |-> kept[k].lie]

\* the loop test dropped: the loop prompts whatever the outcome is
LoopPrompt_always ==
    /\ pc = "loop"
    /\ Len(game.history) < MaxTurns
    /\ pc' = "turn"
    /\ prompt' = Len(game.history)
    /\ UNCHANGED <<game, opponent, input, value_fn, response, ret, report>>

\* while result(game.possibilities()) == Ongoing { prompt ...
LoopPrompt ==
    /\ pc = "loop"
    /\ result(possibilities(game)) = Ongoing
    /\ Len(game.history) < MaxTurns
    /\ pc' = "turn"
    /\ prompt' = Len(game.history)
    /\ UNCHANGED <<game, opponent, input, value_fn, response, ret, report>>

\* ... } if let Finished(answer) = result(game.possibilities()) { report }
LoopExit ==
    /\ pc = "loop"
    /\ result(possibilities(game)) # Ongoing
    /\ pc' = "done"
    /\ report' =
         LET res == result(possibilities(game))
         IN  IF res[1] = "Finished"
             THEN <<Len(game.history), res[2], PossLies(game)>>
             ELSE << >>
    /\ UNCHANGED <<game, opponent, input, value_fn, response, ret, prompt>>

\* Err(_) => println!("Input could not be parsed ...")
TurnUnparseable ==
    /\ pc = "turn"
    /\ input' = <<"Err">>
    /\ pc' = "loop"
    /\ value_fn' = "none"
    /\ response' = "none"
    /\ ret' = "none"
    /\ UNCHANGED <<game, opponent, prompt, report>>

\* the out-of-range branch recording the guess all the same
TurnOutOfRange_stores ==
    /\ pc = "turn"
    /\ \E guess \in Queries :
         /\ guess >= game.upper_limit
         /\ input' = <<"Ok", guess>>
         /\ game' = [game EXCEPT !.history = Append(@, <<guess, Low>>)]
    /\ pc' = "loop"
    /\ value_fn' = "none"
    /\ response' = "none"
    /\ ret' = "none"
    /\ UNCHANGED <<opponent, prompt, report>>

\* Ok(guess) if guess >= upper_limit => println!("Guesses must be less ...")
TurnOutOfRange ==
    /\ pc = "turn"
    /\ \E guess \in Queries :
         /\ guess >= game.upper_limit
         /\ input' = <<"Ok", guess>>
    /\ pc' = "loop"
    /\ value_fn' = "none"
    /\ response' = "none"
    /\ ret' = "none"
    /\ UNCHANGED <<game, opponent, prompt, report>>

\* the accepted branch with the range test off by one: guess = upper_limit
\* is passed on to the opponent and to store_guess
TurnAccepted_offByOne ==
    /\ pc = "turn"
    /\ \E guess \in Queries :
         /\ ~(guess > game.upper_limit)
         /\ input' = <<"Ok", guess>>
         /\ value_fn' = IF opponent = "any" THEN "none" ELSE opponent
         /\ IF OpponentAborts(guess)
            THEN /\ pc' = "abort"
                 /\ response' = "none"
                 /\ ret' = "none"
                 /\ game' = game
            ELSE \E answer \in OpponentResponses(guess) :
                   LET r == store_guess(game, guess, answer)
                   IN  /\ response' = answer
                       /\ game' = r.game
                       /\ ret' = IF r.ok THEN "Ok" ELSE "Err"
                       /\ pc' = IF r.ok THEN "loop" ELSE "abort"
    /\ UNCHANGED <<opponent, prompt, report>>

\* Ok(guess) otherwise: ask the opponent, announce, store_guess(...).expect
TurnAccepted ==
    /\ pc = "turn"
    /\ \E guess \in Queries :
         /\ ~(guess >= game.upper_limit)
         /\ input' = <<"Ok", guess>>
         /\ value_fn' = IF opponent = "any" THEN "none" ELSE opponent
         /\ IF OpponentAborts(guess)
            THEN /\ pc' = "abort"
                 /\ response' = "none"
                 /\ ret' = "none"
                 /\ game' = game
            ELSE \E answer \in OpponentResponses(guess) :
                   LET r == store_guess(game, guess, answer)
                   IN  /\ response' = answer
                       /\ game' = r.game
                       /\ ret' = IF r.ok THEN "Ok" ELSE "Err"
                       /\ pc' = IF r.ok THEN "loop" ELSE "abort"
    /\ UNCHANGED <<opponent, prompt, report>>

Next ==
    \/ ApiStoreGuess
    \/ ApiAdversarialResponse
    \/ LoopPrompt
    \/ LoopExit
    \/ TurnUnparseable
    \/ TurnOutOfRange
    \/ TurnAccepted

Spec == Init /\ [][Next]_vars

\* ================================================================ claims
\* the answer recorded at a turn, flipped when the turn is the lie
Agrees(v, entry, flipped) ==
    LET answer == IF flipped THEN opposite(entry[2]) ELSE entry[2]
    IN  IF answer = High THEN v >= entry[1] ELSE v < entry[1]

\* the values of [0, upper_limit) that agree with every answer of self once
\* the answer at the lie position is flipped
ConsistentValues(self, lie) ==
    {v \in 0..(self.upper_limit - 1) :
        \A i \in 1..Len(self.history) :
            Agrees(v, self.history[i], lie = Some(i - 1))}

\* the integers a half-open range holds
RangeValues(range) ==
    {v \in 0..max(range.higher, MaxUpper) : range.lower <= v /\ v < range.higher}

\* the lie positions of a state with n turns
LiePositions(n) == {None} \cup {Some(i) : i \in 0..(n - 1)}

\* the range possibilities() returns for a lie position
RangeOf(self, lie) ==
    LET poss == possibilities(self)
    IN  poss[CHOOSE k \in 1..Len(poss) : poss[k].lie = lie].range

\* C1: in every state reached by successful store_guess calls, the range
\* that possibilities() returns for each lie position holds exactly the
\* values of [0, upper_limit) that agree with every recorded answer after
\* the answer at that position is flipped.
C1_RangeIsConsistentSet ==
    LET poss == possibilities(game)
    IN  \A k \in 1..Len(poss) :
            RangeValues(poss[k].range) = ConsistentValues(game, poss[k].lie)

\* three turns stored, one hypothesis with an inverted range and one
\* hypothesis with a lie that still holds a value
C1_Witness ==
    LET poss == possibilities(game)
    IN  /\ Len(game.history) = 3
        /\ \E k \in 1..Len(poss) : poss[k].range.lower > poss[k].range.higher
        /\ \E k \in 1..Len(poss) :
              poss[k].lie # None /\ len(poss[k].range) > 0

\* C2: possibilities() of a state with n turns has n + 1 entries, exactly
\* one with the no-lie marker and exactly one for each index 0..n-1.
C2_OneEntryPerLiePosition ==
    LET poss == possibilities(game)
        n == Len(game.history)
    IN  /\ Len(poss) = n + 1
        /\ \A lie \in LiePositions(n) :
              Cardinality({k \in 1..Len(poss) : poss[k].lie = lie}) = 1

C2_Witness ==
    Len(game.history) >= 2 /\ Len(possibilities(game)) >= 3

\* the ranges of possibilities() that hold a value
Surviving(self) ==
    LET poss == possibilities(self)
    IN  {poss[k].range : k \in {j \in 1..Len(poss) : len(poss[j].range) > 0}}

\* C3 as stated: result returns Finished(v) if and only if every range of
\* length > 0 is the singleton [v, v + 1).
C3_FinishedIffAllSingleton ==
    \A v \in 0..(MaxUpper + 1) :
        (result(possibilities(game)) = Finished(v))
            <=> (\A range \in Surviving(game) : range = RangeNew(v, v + 1))

\* C3 amended: result returns Finished(v) if and only if some range has
\* length > 0 and every range of length > 0 is the singleton [v, v + 1).
C3_FinishedIffSomeAndAllSingleton ==
    \A v \in 0..(MaxUpper + 1) :
        (result(possibilities(game)) = Finished(v))
            <=> /\ Surviving(game) # {}
                /\ \A range \in Surviving(game) : range = RangeNew(v, v + 1)

\* a game finished on 1 after two turns or more, with a surviving and a
\* contradicted hypothesis
C3_Witness ==
    LET poss == possibilities(game)
    IN  /\ result(poss) = Finished(1)
        /\ Len(game.history) >= 2
        /\ Surviving(game) = {RangeNew(1, 2)}
        /\ \E k \in 1..Len(poss) : len(poss[k].range) = 0

\* a step in which store_guess was called on game
StoreGuessCalled ==
    /\ pc \in {"api", "turn"}
    /\ ret' # "none"
    /\ ApiStoreGuess \/ TurnAccepted

\* C4: store_guess(value, answer) returns an error if and only if
\* value >= upper_limit; when it succeeds the history grows by the one entry
\* (value, answer) at its end, every earlier entry keeps its position and
\* content, and upper_limit is unchanged.
C4_StoreGuessAppends ==
    [][StoreGuessCalled =>
        /\ (ret' = "Err") <=> (input'[2] >= game.upper_limit)
        /\ ret' = "Ok" =>
            /\ Len(game'.history) = Len(game.history) + 1
            /\ game'.history[Len(game'.history)] = <<input'[2], response'>>
            /\ \A i \in 1..Len(game.history) :
                  game'.history[i] = game.history[i]
            /\ game'.upper_limit = game.upper_limit]_vars

\* a call that failed on a state with two stored turns
C4_Witness ==
    /\ pc = "api"
    /\ ret = "Err"
    /\ input[2] >= game.upper_limit
    /\ Len(game.history) >= 2

\* a query the loop rejects: a line that does not parse, or a number that
\* is not below upper_limit
Rejected(in) ==
    \/ in = <<"Err">>
    \/ Len(in) = 2 /\ in[2] >= game.upper_limit

\* C5: a turn of the play loop whose input does not parse or is
\* >= upper_limit leaves the GameState unchanged, the loop goes on and the
\* next prompt shows the same turn index; a failing store_guess call leaves
\* the history unchanged.
C5_RejectedTurnChangesNothing ==
    [][/\ (pc = "turn" /\ pc' # "turn" /\ Rejected(input'))
            => game' = game /\ pc' = "loop"
       /\ (pc = "loop" /\ pc' # "loop" /\ Rejected(input))
            => pc' = "turn" /\ prompt' = prompt
       /\ (StoreGuessCalled /\ ret' = "Err")
            => game'.history = game.history]_vars

\* prompted again for turn 1 after a rejected query
C5_Witness ==
    /\ pc = "turn"
    /\ Rejected(input)
    /\ prompt = 1
    /\ Len(game.history) = 1

\* the state adversarial_response was last called on, and its guess
CalledOn ==
    IF pc = "api"
    THEN game
    ELSE [game EXCEPT !.history = SubSeq(@, 1, Len(@) - 1)]

WithAnswer(self, guess, answer) ==
    [self EXCEPT !.history = Append(@, <<guess, answer>>)]

\* adversarial_response has returned: called directly, or by the loop's
\* opponent in the turn just stored
AdversarialReturned ==
    /\ value_fn # "none"
    /\ response # "none"
    /\ pc = "api" \/ (pc \in {"loop", "done"} /\ ret = "Ok")

\* C6: adversarial_response returns High if and only if the value function
\* rates the state with (query, High) appended strictly higher than the
\* state with (query, Low) appended; otherwise, ties included, it returns
\* Low.
C6_HighIffStrictlyGreater ==
    AdversarialReturned =>
        LET high == ApplyValue(value_fn, WithAnswer(CalledOn, input[2], High))
            low == ApplyValue(value_fn, WithAnswer(CalledOn, input[2], Low))
        IN  /\ response \in Dir
            /\ (response = High) <=> (high > low)
            /\ (high <= low) => response = Low

\* better_value tied on a query to a state with a turn stored, and the
\* answer was Low
C6_Witness ==
    /\ AdversarialReturned
    /\ pc = "api"
    /\ value_fn = "better_value"
    /\ Len(game.history) >= 1
    /\ better_value(WithAnswer(game, input[2], High))
         = better_value(WithAnswer(game, input[2], Low))
    /\ better_value(WithAnswer(game, input[2], High)) > 0
    /\ response = Low

\* the state before its last turn was stored
CalledOnBefore == [game EXCEPT !.history = SubSeq(@, 1, Len(@) - 1)]

\* C7: after a successful store_guess, the range of every lie position that
\* existed before the call lies within its range before the call: the lower
\* edge did not decrease and the higher edge did not increase.
C7_RangesOnlyTighten ==
    [][(StoreGuessCalled /\ ret' = "Ok") =>
        \A old \in {possibilities(game)}, new \in {possibilities(game')} :
            \A k \in 1..Len(old) :
                \E j \in 1..Len(new) :
                    /\ new[j].lie = old[k].lie
                    /\ new[j].range.lower >= old[k].range.lower
                    /\ new[j].range.higher <= old[k].range.higher]_vars

\* a third turn was stored and strictly tightened the range of some lie
\* position of the two turns before it
C7_Witness ==
    /\ pc = "api"
    /\ ret = "Ok"
    /\ Len(game.history) = 3
    /\ \E lie \in LiePositions(2) :
          /\ lie # None
          /\ len(RangeOf(game, lie)) > 0
          /\ len(RangeOf(game, lie)) < len(RangeOf(CalledOnBefore, lie))

\* C8: every range of possibilities() has 0 <= lower and
\* higher <= upper_limit.
C8_RangesWithinDomain ==
    LET poss == possibilities(game)
    IN  \A k \in 1..Len(poss) :
            /\ 0 <= poss[k].range.lower
            /\ poss[k].range.higher <= game.upper_limit

\* after two turns, one range still ends at upper_limit and another has
\* been cut at both edges
C8_Witness ==
    LET poss == possibilities(game)
    IN  /\ Len(game.history) >= 2
        /\ \E k \in 1..Len(poss) : poss[k].range.higher = game.upper_limit
        /\ \E k \in 1..Len(poss) :
              /\ poss[k].range.lower > 0
              /\ poss[k].range.higher < game.upper_limit

\* possibilities() as a set of (range, lie) entries
Hypotheses(self) ==
    LET poss == possibilities(self) IN {poss[k] : k \in 1..Len(poss)}

\* C9: with upper_limit = 2 and no turn stored, for the query 1: the state
\* simulated with High has the hypotheses (Range(1,2), none) and
\* (Range(0,1), lie at 0), simple_value 2 and better_value 1; the state
\* simulated with Low has the hypotheses (Range(0,1), none) and
\* (Range(1,2), lie at 0) and better_value 1; adversarial_response with
\* better_value returns Low.
C9_WorkedQueryOne ==
    (/\ AdversarialReturned
     /\ value_fn = "better_value"
     /\ CalledOn = GameStateNew(2)
     /\ input = <<"Ok", 1>>) =>
        LET game_high == store_guess(CalledOn, 1, High).game
            game_low == store_guess(CalledOn, 1, Low).game
        IN  /\ Hypotheses(game_high) =
                 {[range |-> RangeNew(1, 2), lie |-> None],
                  [range |-> RangeNew(0, 1), lie |-> Some(0)]}
            /\ simple_value(game_high) = 2
            /\ better_value(game_high) = 1
            /\ Hypotheses(game_low) =
                 {[range |-> RangeNew(0, 1), lie |-> None],
                  [range |-> RangeNew(1, 2), lie |-> Some(0)]}
            /\ better_value(game_low) = 1
            /\ response = Low

\* main's opponent has answered the query 1 of a game created with
\* upper_limit = 2, and the answer was stored
C9_Witness ==
    /\ pc = "loop"
    /\ opponent = "better_value"
    /\ AdversarialReturned
    /\ value_fn = "better_value"
    /\ CalledOn = GameStateNew(2)
    /\ input = <<"Ok", 1>>
    /\ game.history = << <<1, Low>> >>

\* C10: with upper_limit = 2, the empty history evaluates to Ongoing; after
\* (1, Low) is stored the outcome is still Ongoing and the surviving
\* hypotheses are the two distinct singletons [0,1) and [1,2); after
\* (0, Low) is stored next, every range is [0,1) or of length 0 and the
\* outcome is Finished(0).
C10_WorkedOutcomes ==
    LET poss == possibilities(game)
    IN  game.upper_limit = 2 =>
        /\ game.history = << >> => result(poss) = Ongoing
        /\ game.history = << <<1, Low>> >> =>
              /\ result(poss) = Ongoing
              /\ Cardinality({k \in 1..Len(poss) : len(poss[k].range) > 0}) = 2
              /\ Surviving(game) = {RangeNew(0, 1), RangeNew(1, 2)}
        /\ game.history = << <<1, Low>>, <<0, Low>> >> =>
              /\ \A k \in 1..Len(poss) :
                    poss[k].range = RangeNew(0, 1) \/ len(poss[k].range) = 0
              /\ result(poss) = Finished(0)

\* the loop has played (1, Low), (0, Low) on upper_limit = 2 and reported
\* the answer 0 after 2 guesses
C10_Witness ==
    /\ pc = "done"
    /\ game.upper_limit = 2
    /\ game.history = << <<1, Low>>, <<0, Low>> >>
    /\ report = <<2, 0, <<Some(1)>> >>

\* the loop is running play_game against adversarial_response
AdversaryPlays ==
    /\ pc \in {"loop", "turn", "done"}
    /\ opponent \in {"simple_value", "better_value"}

\* C11: in a game with upper_limit >= 1 whose every recorded answer is the
\* one adversarial_response returned (with simple_value or better_value), no
\* state evaluates to Impossible; and whatever state that is not Impossible
\* the adversary is asked on, the state with its answer recorded is not
\* Impossible either.
C11_AdversaryNeverImpossible ==
    /\ (AdversaryPlays /\ game.upper_limit >= 1)
          => result(possibilities(game)) # Impossible
    /\ (/\ pc = "api"
        /\ AdversarialReturned
        /\ value_fn \in {"simple_value", "better_value"}
        /\ result(possibilities(game)) # Impossible)
          => result(possibilities(WithAnswer(game, input[2], response)))
                # Impossible

\* main's adversary has answered three queries, the last one being 0 on a
\* state whose no-lie range was already empty: answering Low would have
\* contradicted everything, and it answered High
C11_Witness ==
    /\ AdversaryPlays
    /\ opponent = "better_value"
    /\ Len(game.history) = 3
    /\ input = <<"Ok", 0>>
    /\ response = High
    /\ len(RangeOf(CalledOnBefore, None)) = 0
    /\ result(possibilities(WithAnswer(CalledOnBefore, 0, Low))) = Impossible

\* the turns of self whose recorded answer is false of the secret s
LiesAbout(self, s) ==
    {i \in 1..Len(self.history) : ~Agrees(s, self.history[i], FALSE)}

\* C12: for a secret s in [0, upper_limit) and answers that are truthful
\* about s except for at most one, the outcome is never Impossible, and an
\* outcome Finished(w) has w = s.
C12_OneLieKeepsTheSecret ==
    \A res \in {result(possibilities(game))} :
        \A s \in 0..(game.upper_limit - 1) :
            Cardinality(LiesAbout(game, s)) <= 1 =>
                /\ res # Impossible
                /\ res[1] = "Finished" => res[2] = s

\* the loop has finished on the secret 1 after three answers of an
\* arbitrary opponent, exactly one of them false of 1
C12_Witness ==
    /\ pc = "done"
    /\ opponent = "any"
    /\ Len(game.history) = 3
    /\ Cardinality(LiesAbout(game, 1)) = 1
    /\ result(possibilities(game)) = Finished(1)
    /\ report[2] = 1

\* what C13 says of one step of the play loop
LoopStepWhileOngoing ==
    pc \in {"loop", "turn", "done"} =>
        \A res \in {result(possibilities(game))} :
            /\ (pc = "loop" /\ pc' = "turn") => res = Ongoing
            /\ game' # game => res = Ongoing
            /\ res # Ongoing =>
                  /\ game' = game
                  /\ pc' = "done"
                  /\ input' = input
            /\ pc' = "done" =>
                  /\ res # Ongoing
                  /\ result(possibilities(game')) # Ongoing
            /\ pc = "done" => vars' = vars

\* C13: the play loop asks for a query and records an answer only in a
\* state whose outcome is Ongoing; from a state whose outcome is Finished or
\* Impossible it only leaves the loop, the history never changes again, and
\* it leaves the loop in no state whose outcome is Ongoing.
C13_LoopRunsWhileOngoing == [][LoopStepWhileOngoing]_vars

\* the loop has ended on answers that contradict each other twice
C13_Witness ==
    /\ pc = "done"
    /\ Len(game.history) >= 2
    /\ result(possibilities(game)) = Impossible
    /\ report = << >>

\* C14: in the game main plays (adversarial_response with better_value),
\* better_value is never invoked on a state whose simple_value is 0.
C14_BetterValueNeverOnContradiction ==
    (/\ pc \in {"loop", "done"}
     /\ opponent = "better_value"
     /\ AdversarialReturned) =>
        \A valued \in ValuedStates(CalledOn, input[2]) :
            simple_value(valued) # 0

\* what C15 says of one step
EngineCallsLeaveGame ==
    /\ (pc = "api" /\ value_fn' # "none") => game' = game
    /\ pc = "loop" => game' = game
    /\ (pc = "turn" /\ game' # game) =>
          game' = WithAnswer(game, input'[2], response')

\* C15: possibilities, simple_value, result and adversarial_response leave
\* the GameState they are given unchanged: after adversarial_response
\* returns, history and upper_limit are what they were before the call,
\* and a turn of the loop adds the announced answer only.
C15_EngineLeavesGameUnchanged == [][EngineCallsLeaveGame]_vars

\* adversarial_response was called with simple_value on a state with two
\* turns and answered High; the two turns are all the state holds
C15_Witness ==
    /\ pc = "api"
    /\ AdversarialReturned
    /\ value_fn = "simple_value"
    /\ response = High
    /\ Len(game.history) = 2

\* what C16 says of one turn of the loop
TurnNeverAborts ==
    pc = "turn" =>
        /\ pc' # "abort"
        /\ ret' # "Err"
        /\ \A guess \in Queries :
              input' = <<"Ok", guess>> /\ game' # game =>
                  ~AdversarialAborts(game, guess)

\* C16: in the play loop store_guess never returns an error, neither in
\* the two simulated stores of adversarial_response nor in the store after
\* the answer is announced, so the unwrap() and expect() never abort.
C16_LoopStoresNeverFail == [][TurnNeverAborts]_vars

\* main's opponent has answered the largest legal guess on its second turn
\* and the answer was stored
C16_Witness ==
    /\ pc = "loop"
    /\ opponent = "better_value"
    /\ ret = "Ok"
    /\ Len(game.history) = 2
    /\ input = <<"Ok", game.upper_limit - 1>>
    /\ game.history[2] = <<game.upper_limit - 1, response>>

\* C17: simple_value never increases when a guess is stored: after a
\* successful store_guess, with any in-range query and either answer, the
\* simple_value of the new state is at most that of the old state.
C17_SimpleValueNeverIncreases ==
    [][(StoreGuessCalled /\ ret' = "Ok") =>
        simple_value(game') <= simple_value(game)]_vars

\* a third turn was stored and the simple_value went down, not to 0
C17_Witness ==
    /\ pc = "api"
    /\ ret = "Ok"
    /\ Len(game.history) = 3
    /\ simple_value(game) > 0
    /\ simple_value(game) < simple_value(CalledOnBefore)

\* C18: the terminal outcomes are absorbing under further successful
\* store_guess calls: an Impossible state only has Impossible successors,
\* and a Finished(v) state only has successors that are Finished(v) or
\* Impossible.
C18_TerminalOutcomesAbsorb ==
    [][(StoreGuessCalled /\ ret' = "Ok") =>
        \A old \in {result(possibilities(game))},
           new \in {result(possibilities(game'))} :
            /\ old = Impossible => new = Impossible
            /\ old[1] = "Finished" => (new = old \/ new = Impossible)]_vars

\* a third answer was stored on a finished state and contradicted its one
\* surviving hypothesis
C18_Witness ==
    /\ pc = "api"
    /\ ret = "Ok"
    /\ Len(game.history) = 3
    /\ result(possibilities(CalledOnBefore))[1] = "Finished"
    /\ result(possibilities(game)) = Impossible

\* C19: a freshly created game (no turn stored) evaluates to Ongoing if and
\* only if upper_limit >= 2; with upper_limit = 1 it evaluates to
\* Finished(0), before any query is asked, and with upper_limit = 0 to
\* Impossible.
C19_FreshGameOutcome ==
    game.history = << >> =>
        \A res \in {result(possibilities(game))} :
            /\ (res = Ongoing) <=> (game.upper_limit >= 2)
            /\ game.upper_limit = 1 => res = Finished(0)
            /\ game.upper_limit = 0 => res = Impossible
            /\ (pc = "turn" \/ prompt >= 0) => game.upper_limit >= 2

\* play_game(1, ...) has ended without a prompt and reported the answer 0
\* after 0 guesses
C19_Witness ==
    /\ pc = "done"
    /\ game = GameStateNew(1)
    /\ prompt = -1
    /\ report = <<0, 0, <<None>> >>

====
